---- MODULE Spec2Model ----
(***************************************************************************)
(* tiny-json-schema-generator (tjsg/tjsg.py): the primitive Type Node      *)
(* (JSONSchemaPrimitiveType), the type-name factory (JSONSchemaTypes) and  *)
(* the schema compiler (compile_schema, _compile_array_schema,             *)
(* _require_all_properties).                                               *)
(*                                                                         *)
(* Python values are modelled as tagged records [k, v]:                    *)
(*   "str"  a string            "list" a list of strings                   *)
(*   "num"  a number            "dict" a dict                              *)
(*   "none" None                "node" a reference to a Type Node          *)
(*   "map"  a raw-schema dict   "seq"  a raw-schema list                   *)
(* A dict is the sequence of its <<key, value>> pairs in insertion order,  *)
(* the order Python dicts keep.                                            *)
(***************************************************************************)
EXTENDS Integers, Sequences, FiniteSets, TLC

VARIABLES
    heap,   \* the Type Nodes alive, by address 1..Len(heap)
    log,    \* per address: the node as constructed, and the kwargs of the
            \* __call__ calls made on it since, in call order
    ret,    \* the outcome of the last operation
    arg,    \* the input of the last compile_schema / jst lookup
    calls   \* the top-level compile_schema calls made, in call order: the
            \* input, the outcome and the definitions table the call built
            \* (the document's $defs is that table itself)

vars == <<heap, log, ret, arg, calls>>

---------------------------------------------------------------------------
(* Python values *)

JStr(s) == [k |-> "str", v |-> s]

JList(l) == [k |-> "list", v |-> l]

JNum(n) == [k |-> "num", v |-> n]

JDict(d) == [k |-> "dict", v |-> d]

None == [k |-> "none", v |-> 0]

NodeRef(id) == [k |-> "node", v |-> id]

---------------------------------------------------------------------------
(* dict operations, on insertion-ordered sequences of <<key, value>> *)

DictKeys(d) == [i \in 1..Len(d) |-> d[i][1]]

DictHas(d, key) == \E i \in 1..Len(d) : d[i][1] = key

DictGet(d, key) == d[CHOOSE i \in 1..Len(d) : d[i][1] = key][2]

\* d[key] = val: an existing key keeps its position and takes the new value
DictSet(d, key, val) ==
    IF DictHas(d, key)
    THEN [i \in 1..Len(d) |-> IF d[i][1] = key THEN <<key, val>> ELSE d[i]]
    ELSE Append(d, <<key, val>>)

RECURSIVE DictUpdate(_, _)
\* d.update(e)
DictUpdate(d, e) ==
    IF e = <<>> THEN d
    ELSE DictUpdate(DictSet(d, Head(e)[1], Head(e)[2]), Tail(e))

---------------------------------------------------------------------------
(* JSONSchemaPrimitiveType *)

valid_types == <<"string", "number", "boolean", "array", "null">>

InList(x, l) == \E i \in 1..Len(l) : l[i] = x

\* lines 10-20: a str becomes a one-element list; every name must be valid
TypesOf(types) == IF types.k = "str" THEN <<types.v>> ELSE types.v

TypesValid(l) == \A i \in 1..Len(l) : InList(l[i], valid_types)

NewNode(l, items) == [types |-> l, items |-> items, props |-> <<>>]

Ok(h, v) == [ok |-> TRUE, err |-> "", heap |-> h, val |-> v]

Raise(h, e) == [ok |-> FALSE, err |-> e, heap |-> h, val |-> None]

\* a bug of __init__: the items/array check of lines 31-32 is left out
NewTypeNodeNoItemsCheck(h, types, items) ==
    LET l == TypesOf(types) IN
    IF ~TypesValid(l) THEN Raise(h, "ValueError")
    ELSE IF items.k = "node"
    THEN Ok(Append(h, NewNode(l, items.v)), NodeRef(Len(h) + 1))
    ELSE IF items.k # "none"
    THEN IF ~TypesValid(TypesOf(items)) THEN Raise(h, "ValueError")
         ELSE Ok(h \o <<NewNode(TypesOf(items), 0), NewNode(l, Len(h) + 1)>>,
                 NodeRef(Len(h) + 2))
    ELSE Ok(Append(h, NewNode(l, 0)), NodeRef(Len(h) + 1))

\* JSONSchemaPrimitiveType(types, items) on heap h: the heap afterwards and
\* the new node's address, or the error raised (the heap is then unchanged:
\* nothing refers to what was allocated).  types is a str or a list of str;
\* items is None, a str, a list of str or a node.
NewTypeNode(h, types, items) ==
    LET l == TypesOf(types) IN
    IF ~TypesValid(l) THEN Raise(h, "ValueError")
    ELSE IF items.k = "node"
    THEN IF ~InList("array", l) THEN Raise(h, "ValueError")
         ELSE Ok(Append(h, NewNode(l, items.v)), NodeRef(Len(h) + 1))
    ELSE IF items.k # "none"
    THEN \* self.items = JSONSchemaPrimitiveType(types=items)
         IF ~TypesValid(TypesOf(items)) THEN Raise(h, "ValueError")
         ELSE IF ~InList("array", l) THEN Raise(h, "ValueError")
         ELSE Ok(h \o <<NewNode(TypesOf(items), 0), NewNode(l, Len(h) + 1)>>,
                 NodeRef(Len(h) + 2))
    ELSE Ok(Append(h, NewNode(l, 0)), NodeRef(Len(h) + 1))

\* a bug of compile: a one-name node compiles to a list as well
TypeValueAlwaysList(l) == JList(l)

\* line 40: self.types[0] if len(self.types) == 1 else self.types
TypeValue(l) == IF Len(l) = 1 THEN JStr(l[1]) ELSE JList(l)

RECURSIVE compile(_, _)
\* JSONSchemaPrimitiveType.compile of the node at address id
compile(h, id) ==
    LET value0 == <<<<"type", TypeValue(h[id].types)>>>>
        value1 == IF h[id].items # 0
                  THEN DictSet(value0, "items", JDict(compile(h, h[id].items)))
                  ELSE value0
    IN  DictUpdate(value1, h[id].props)

\* a bug of __call__: self.props = kwargs, dropping the earlier keywords
callReplacesProps(h, id, kwargs) ==
    Ok([h EXCEPT ![id].props = kwargs], NodeRef(id))

\* __call__(**kwargs): self.props.update(kwargs); return self
call(h, id, kwargs) ==
    Ok([h EXCEPT ![id].props = DictUpdate(@, kwargs)], NodeRef(id))

---------------------------------------------------------------------------
(* JSONSchemaTypes.__getattr__                                             *)
(* An attribute name is the sequence of its tokens: the maximal runs of    *)
(* characters other than "_" (words) and the single character "_".  With   *)
(* words that neither contain "_" nor start with "array" beyond the word   *)
(* "array" itself, the str methods used act on tokens as defined below.    *)

RECURSIVE Join(_)
\* the str the tokens spell
Join(t) == IF t = <<>> THEN "" ELSE Head(t) \o Join(Tail(t))

StartsWith(t, pat) == Len(t) >= Len(pat) /\ SubSeq(t, 1, Len(pat)) = pat

\* attr.endswith('_array')
EndsWithArray(t) ==
    Len(t) >= 2 /\ SubSeq(t, Len(t) - 1, Len(t)) = <<"_", "array">>

RECURSIVE RemoveArray(_)
\* attr.replace('_array', ''): every occurrence is removed
RemoveArray(t) ==
    IF t = <<>> THEN <<>>
    ELSE IF StartsWith(t, <<"_", "array">>) THEN RemoveArray(SubSeq(t, 3, Len(t)))
    ELSE <<Head(t)>> \o RemoveArray(Tail(t))

\* '_or_' in attr
ContainsOr(t) == \E i \in 1..Len(t) : StartsWith(SubSeq(t, i, Len(t)), <<"_", "or", "_">>)

RECURSIVE SplitOr(_, _)
\* attr.split('_or_'), cur being the piece read so far: the pieces as strs
SplitOr(t, cur) ==
    IF t = <<>> THEN <<Join(cur)>>
    ELSE IF StartsWith(t, <<"_", "or", "_">>)
    THEN <<Join(cur)>> \o SplitOr(SubSeq(t, 4, Len(t)), <<>>)
    ELSE SplitOr(Tail(t), Append(cur, Head(t)))

\* len(set(types)) != len(types)
HasDuplicates(l) == \E i, j \in 1..Len(l) : i # j /\ l[i] = l[j]

\* lines 90-93: a ValueError of the constructor becomes an AttributeError
AsAttributeError(r) ==
    IF ~r.ok /\ r.err = "ValueError" THEN Raise(r.heap, "AttributeError") ELSE r

\* JSONSchemaTypes.__getattr__(attr)
getattr(h, attr) ==
    IF InList(Join(attr), valid_types)
    THEN AsAttributeError(NewTypeNode(h, JStr(Join(attr)), None))
    ELSE IF EndsWithArray(attr)
    THEN AsAttributeError(
             NewTypeNode(h, JStr("array"), JList(SplitOr(RemoveArray(attr), <<>>))))
    ELSE IF ContainsOr(attr)
    THEN IF HasDuplicates(SplitOr(attr, <<>>)) THEN Raise(h, "AttributeError")
         ELSE AsAttributeError(NewTypeNode(h, JList(SplitOr(attr, <<>>)), None))
    ELSE Raise(h, "AttributeError")

---------------------------------------------------------------------------
(* compile_schema, _compile_array_schema, _require_all_properties          *)
(* A raw schema is a node reference, a "map" (the sequence of its          *)
(* <<field name, raw schema>> items) or a "seq" (the sequence of its       *)
(* elements).  The definitions table, which Python passes by reference     *)
(* and mutates, is passed in and handed back in the result's defs.         *)

KW_type == "type"
KW_items == "items"
KW_defs == "$defs"
KW_ref == "$ref"
KW_properties == "properties"
KW_object == "object"
KW_array == "array"

Done(v, defs) == [ok |-> TRUE, err |-> "", val |-> v, defs |-> defs]

Fail(e) == [ok |-> FALSE, err |-> e, val |-> None, defs |-> None]

\* compiled_schema['properties'][property_name].get('type') == 'object'
IsObjectSchema(d) == DictHas(d.v, KW_type) /\ DictGet(d.v, KW_type) = JStr(KW_object)

RECURSIVE CanRequireAll(_)
\* line 120: compiled_schema.get('properties').keys() needs a properties dict
\* at every object-typed level the pass visits
CanRequireAll(d) ==
    /\ DictHas(d, KW_properties)
    /\ LET props == DictGet(d, KW_properties).v IN
        \A i \in 1..Len(props) :
            IsObjectSchema(props[i][2]) => CanRequireAll(props[i][2].v)

RECURSIVE require_all_properties(_)
\* _require_all_properties(compiled_schema), as the dict it leaves behind
require_all_properties(d) ==
    LET props == DictGet(d, KW_properties).v
        marked == [i \in 1..Len(props) |->
                     IF IsObjectSchema(props[i][2])
                     THEN <<props[i][1], JDict(require_all_properties(props[i][2].v))>>
                     ELSE props[i]]
    IN  DictSet(DictSet(d, "required", JList(DictKeys(props))),
                KW_properties, JDict(marked))

\* a bug of line 187: only an empty list is refused (if not raw_schema)
BadLengthOnlyEmpty(raw) == Len(raw.v) = 0

\* line 187: len(raw_schema) != 1
BadLength(raw) == Len(raw.v) # 1

\* line 195: JSONSchemaPrimitiveType(KW.array, items=element_schema).compile()
\* for an element that is a node or a list (whose elements, raw schemas, are
\* no type names)
CompilePrimitiveArray(h, element) ==
    LET items == IF element.k = "seq"
                 THEN JList([i \in 1..Len(element.v) |-> "<raw schema>"])
                 ELSE element
        r == NewTypeNode(h, JStr(KW_array), items)
    IN  IF r.ok THEN Done(JDict(compile(r.heap, r.val.v)), None) ELSE Fail(r.err)

RECURSIVE compile_schema(_, _, _, _)
RECURSIVE compile_array_schema(_, _, _, _, _)
RECURSIVE CompileProperties(_, _, _, _, _)

\* lines 155-172: the loop over raw_schema.items() from the i-th item on, with
\* the properties compiled so far and the definitions table as it stands
CompileProperties(h, fields, i, acc, require_all) ==
    IF i > Len(fields) THEN acc
    ELSE LET property_name == fields[i][1]
             property_schema == fields[i][2]
             r == IF property_schema.k = "node"
                  THEN Done(JDict(compile(h, property_schema.v)), acc.defs)
                  ELSE IF property_schema.k = "seq"
                  THEN compile_array_schema(h, property_schema, JStr(property_name),
                                            acc.defs, require_all)
                  ELSE \* line 170: compile_schema(property_schema)
                       LET n == compile_schema(h, property_schema, FALSE, None)
                       IN  IF n.ok THEN Done(n.val, acc.defs) ELSE n
         IN  IF ~r.ok THEN r
             ELSE CompileProperties(h, fields, i + 1,
                      Done(DictSet(acc.val, property_name, r.val), r.defs),
                      require_all)

\* compile_schema(raw_schema, require_all, _schema_defs); schema_defs is None
\* or the caller's definitions table
compile_schema(h, raw_schema, require_all, schema_defs) ==
    IF raw_schema.k = "node" THEN Done(JDict(compile(h, raw_schema.v)), schema_defs)
    ELSE IF raw_schema.k = "seq"
    THEN compile_array_schema(h, raw_schema, None, None, require_all)
    ELSE LET top == schema_defs = None
             defs0 == IF top THEN JDict(<<>>) ELSE schema_defs
             p == CompileProperties(h, raw_schema.v, 1, Done(<<>>, defs0), require_all)
             base == <<<<KW_type, JStr(KW_object)>>, <<KW_properties, JDict(p.val)>>>>
             \* compiled_schema['$defs'] is the table itself
             compiled == IF top THEN Append(base, <<KW_defs, p.defs>>) ELSE base
         IN  IF ~p.ok THEN p
             ELSE IF ~require_all THEN Done(JDict(compiled), p.defs)
             ELSE IF CanRequireAll(compiled)
             THEN Done(JDict(require_all_properties(compiled)), p.defs)
             ELSE Fail("AttributeError")

\* _compile_array_schema(raw_schema, def_id, schema_defs, require_all)
compile_array_schema(h, raw_schema, def_id, schema_defs, require_all) ==
    IF BadLength(raw_schema) THEN Fail("ValueError")
    ELSE LET element_schema == raw_schema.v[1] IN
         IF element_schema.k # "map"
         THEN LET r == CompilePrimitiveArray(h, element_schema)
              IN  IF r.ok THEN Done(r.val, schema_defs) ELSE r
         ELSE LET array_is_top_level == schema_defs = None
                  defs0 == IF array_is_top_level THEN JDict(<<>>) ELSE schema_defs
                  id == IF array_is_top_level THEN "top_level_array_element"
                        ELSE def_id.v
                  compiled ==
                      <<<<KW_type, JStr(KW_array)>>,
                        <<KW_items, JDict(<<<<KW_ref, JStr("#/" \o KW_defs \o "/" \o id)>>>>)>>>>
                  schema_def == compile_schema(h, element_schema, require_all, defs0)
              IN  IF ~schema_def.ok THEN schema_def
                  ELSE IF DictHas(schema_def.defs.v, id) THEN Fail("ValueError")
                  ELSE LET defs1 == JDict(DictSet(schema_def.defs.v, id, schema_def.val))
                       IN  Done(JDict(IF array_is_top_level
                                      THEN Append(compiled, <<KW_defs, defs1>>)
                                      ELSE compiled),
                                defs1)

---------------------------------------------------------------------------
(* The Type Node operations as steps of a caller's session *)

MaxNodes == 2

MaxCalls == 2

\* type names a caller passes: valid ones and one outside the vocabulary
StrArgs == {JStr("number"), JStr("array"), JStr("uhoh")}

ListArgs ==
    {JList(<<>>), JList(<<"number", "null">>), JList(<<"array", "null">>),
     JList(<<"null", "uhoh">>)}

TypeArgs == StrArgs \cup ListArgs

ItemArgs(h) == {None} \cup TypeArgs \cup {NodeRef(id) : id \in 1..Len(h)}

\* keyword arguments a caller passes to __call__
KwArgs ==
    {<<<<"minimum", JNum(0)>>>>,
     <<<<"minimum", JNum(1)>>, <<"type", JStr("integer")>>>>,
     <<<<"items", JDict(<<<<"type", JStr("string")>>>>)>>>>}

Outcome(op, self, r) ==
    [op |-> op, self |-> self, ok |-> r.ok, err |-> r.err, val |-> r.val]

Init ==
    /\ heap = <<>>
    /\ log = <<>>
    /\ ret = Outcome("init", 0, Ok(<<>>, None))
    /\ arg = None
    /\ calls = <<>>

CallsMade == LET n[i \in 0..Len(log)] ==
                    IF i = 0 THEN 0 ELSE n[i - 1] + Len(log[i].kw)
             IN  n[Len(log)]

\* node = JSONSchemaPrimitiveType(types, items).  The session builds its nodes
\* first and augments them afterwards (a construction reads no props, so every
\* heap is reached that way); the first node is built from names, later ones
\* take an existing node as their items.
Construct(types, items) ==
    LET r == NewTypeNode(heap, types, items) IN
    /\ CallsMade = 0
    /\ heap = <<>> \/ items.k = "node"
    /\ Len(r.heap) <= MaxNodes
    /\ heap' = r.heap
    /\ log' = log \o [i \in 1..(Len(r.heap) - Len(heap)) |->
                        [made |-> r.heap[Len(heap) + i], kw |-> <<>>]]
    /\ ret' = Outcome("construct", 0, r)
    /\ UNCHANGED <<arg, calls>>

\* node(**kwargs)
Augment(id, kwargs) ==
    LET r == call(heap, id, kwargs) IN
    /\ CallsMade < MaxCalls
    /\ heap' = r.heap
    /\ log' = [log EXCEPT ![id].kw = Append(@, kwargs)]
    /\ ret' = Outcome("call", id, r)
    /\ UNCHANGED <<arg, calls>>

\* node.compile()
CompileNode(id) ==
    /\ ret' = Outcome("compile", id, Ok(heap, JDict(compile(heap, id))))
    /\ UNCHANGED <<heap, log, arg, calls>>

NextNode ==
    \/ \E types \in TypeArgs : \E items \in ItemArgs(heap) : Construct(types, items)
    \/ \E id \in 1..Len(heap) : \E kwargs \in KwArgs : Augment(id, kwargs)
    \/ \E id \in 1..Len(heap) : CompileNode(id)

SpecNode == Init /\ [][NextNode]_vars

---------------------------------------------------------------------------
(* Claims about the Type Node *)

Vocabulary == {"string", "number", "boolean", "array", "null"}

KeySet(d) == {d[i][1] : i \in 1..Len(d)}

NoDuplicateKeys(d) == \A i, j \in 1..Len(d) : d[i][1] = d[j][1] => i = j

\* C6: compile() of a constructed node returns the mapping whose `type` is
\* the single name when one name was supplied and else the list of names in
\* the order supplied, whose `items` is present iff the node has items and is
\* then the items node's own compile() result, with every extra keyword laid
\* over it, the extra keyword winning on `type` and `items`.
NodeCompileResult ==
    ret.op = "compile" =>
        LET n == heap[ret.self]
            supplied == log[ret.self].made.types
            d == ret.val.v
        IN  /\ ret.ok /\ ret.val.k = "dict"
            /\ NoDuplicateKeys(d)
            /\ KeySet(d) = {"type"} \cup KeySet(n.props)
                             \cup (IF n.items # 0 THEN {"items"} ELSE {})
            /\ \A key \in KeySet(n.props) : DictGet(d, key) = DictGet(n.props, key)
            /\ "type" \notin KeySet(n.props) =>
                    DictGet(d, "type") = IF Len(supplied) = 1
                                         THEN JStr(supplied[1])
                                         ELSE JList(supplied)
            /\ (n.items # 0 /\ "items" \notin KeySet(n.props)) =>
                    DictGet(d, "items") = JDict(compile(heap, n.items))

\* an array node with items and an extra keyword `type` has been compiled
NodeCompileWitness ==
    /\ ret.op = "compile"
    /\ heap[ret.self].items # 0
    /\ DictHas(heap[ret.self].props, "type")
    /\ DictGet(ret.val.v, "type") = JStr("integer")
    /\ DictHas(ret.val.v, "items")

BadName(types) == \E i \in 1..Len(TypesOf(types)) : TypesOf(types)[i] \notin Vocabulary

BadArgs(types, items) ==
    \/ BadName(types)
    \/ items # None /\ BadName(items)
    \/ items # None /\ ~InList("array", TypesOf(types))

\* C7: for types and items that are strings or lists of strings, constructing
\* a Type Node raises ValueError and produces no node exactly when a name in
\* types is outside the vocabulary, a name in items is outside the
\* vocabulary, or items is given while `array` is not among types.
ConstructFailsIffInvalid ==
    [][\A types \in TypeArgs : \A items \in {None} \cup TypeArgs :
          Construct(types, items) =>
              /\ BadArgs(types, items) =>
                    ~ret'.ok /\ ret'.err = "ValueError" /\ heap' = heap
              /\ ~BadArgs(types, items) =>
                    /\ ret'.ok /\ ret'.val = NodeRef(Len(heap'))
                    /\ Len(heap') > Len(heap)]_vars

\* a construction has been refused, and one with items has succeeded
ConstructFailsWitness ==
    ret.op = "construct" /\ ~ret.ok /\ ret.err = "ValueError"

\* the index of the last call on node id whose kwargs hold key
LastWith(id, key) ==
    CHOOSE i \in 1..Len(log[id].kw) :
        /\ DictHas(log[id].kw[i], key)
        /\ \A j \in (i + 1)..Len(log[id].kw) : ~DictHas(log[id].kw[j], key)

CalledKeys(id) == UNION {KeySet(log[id].kw[i]) : i \in 1..Len(log[id].kw)}

\* C10: after any sequence of calls node(**kwargs), each call has returned
\* the node itself, the node's types and items are as constructed, its extra
\* keywords are the right-biased merge of the calls' kwargs in call order,
\* and compile() shows exactly those keywords.
AugmentMergesKeywords ==
    /\ \A id \in 1..Len(heap) :
          /\ heap[id].types = log[id].made.types
          /\ heap[id].items = log[id].made.items
          /\ NoDuplicateKeys(heap[id].props)
          /\ KeySet(heap[id].props) = CalledKeys(id)
          /\ \A key \in CalledKeys(id) :
                DictGet(heap[id].props, key) =
                    DictGet(log[id].kw[LastWith(id, key)], key)
    /\ ret.op = "call" => ret.ok /\ ret.val = NodeRef(ret.self)
    /\ ret.op = "compile" =>
          /\ KeySet(ret.val.v) \ {"type", "items"} = CalledKeys(ret.self) \ {"type", "items"}
          /\ \A key \in CalledKeys(ret.self) :
                DictGet(ret.val.v, key) =
                    DictGet(log[ret.self].kw[LastWith(ret.self, key)], key)

\* a node called twice, the second call overwriting `minimum`, then compiled
AugmentWitness ==
    /\ ret.op = "compile"
    /\ Len(log[ret.self].kw) = 2
    /\ DictHas(log[ret.self].kw[1], "minimum")
    /\ DictHas(log[ret.self].kw[2], "minimum")
    /\ DictGet(log[ret.self].kw[1], "minimum") # DictGet(log[ret.self].kw[2], "minimum")
    /\ DictGet(ret.val.v, "minimum") = JNum(1)

---------------------------------------------------------------------------
(* The type-name factory: one lookup jst.<attr> *)

MaxTokens == 7

Words == {"number", "null", "array", "bool", "or"}

\* the names of at most n tokens; a word is a maximal run, so no two words
\* are adjacent
RECURSIVE AttrNames(_)
AttrNames(n) ==
    IF n = 0 THEN {<<>>}
    ELSE LET shorter == AttrNames(n - 1) IN
         shorter \cup
         {Append(t, w) : t \in {u \in shorter : Len(u) = n - 1}, w \in {"_"}}
         \cup
         {Append(t, w) : t \in {u \in shorter : /\ Len(u) = n - 1
                                                  /\ (u = <<>> \/ u[Len(u)] = "_")},
                         w \in Words}

\* jst.<attr>
Lookup(attr) ==
    LET r == getattr(heap, attr) IN
    /\ heap' = r.heap
    /\ log' = log \o [i \in 1..(Len(r.heap) - Len(heap)) |->
                        [made |-> r.heap[Len(heap) + i], kw |-> <<>>]]
    /\ ret' = Outcome("getattr", 0, r)
    /\ arg' = [k |-> "attr", v |-> attr]
    /\ UNCHANGED calls

\* one lookup per session: jst keeps no state between lookups
NextJst ==
    \/ ret.op = "init" /\ \E attr \in AttrNames(MaxTokens) : Lookup(attr)
    \/ \E id \in 1..Len(heap) : CompileNode(id)

SpecJst == Init /\ [][NextJst]_vars

---------------------------------------------------------------------------
(* Claim about the type-name factory *)

\* a vocabulary name
SingleName(t) == Len(t) = 1 /\ t[1] \in Vocabulary

\* two or more pairwise distinct vocabulary names joined by _or_
UnionName(t) ==
    /\ Len(t) >= 5 /\ Len(t) % 4 = 1
    /\ \A i \in 1..Len(t) :
          /\ i % 4 = 1 => t[i] \in Vocabulary
          /\ i % 4 = 2 => t[i] = "_"
          /\ i % 4 = 3 => t[i] = "or"
          /\ i % 4 = 0 => t[i] = "_"
    /\ \A i, j \in 1..Len(t) : (i % 4 = 1 /\ j % 4 = 1 /\ t[i] = t[j]) => i = j

\* a vocabulary name or a union name, followed by the one suffix _array
ArrayName(t) ==
    /\ EndsWithArray(t)
    /\ SingleName(SubSeq(t, 1, Len(t) - 2)) \/ UnionName(SubSeq(t, 1, Len(t) - 2))

InGrammar(t) == SingleName(t) \/ UnionName(t) \/ ArrayName(t)

\* C9: jst.<name> returns a Type Node iff <name> is a vocabulary name, a
\* union of two or more pairwise distinct vocabulary names joined by _or_, or
\* one of those followed by the single suffix _array; every other name fails
\* with AttributeError and with no other error.
JstLookupGrammar ==
    ret.op = "getattr" =>
        /\ (ret.ok /\ ret.val.k = "node") <=> InGrammar(arg.v)
        /\ ~ret.ok => ret.err = "AttributeError"

---------------------------------------------------------------------------
(* The schema compiler: one top-level call compile_schema(raw, require_all) *)

MaxFields == 2

\* the Type Nodes the raw schemas use: jst.number and
\* jst.string_or_null(minimum=0)
LeafHeap ==
    <<[types |-> <<"number">>, items |-> 0, props |-> <<>>],
      [types |-> <<"string", "null">>, items |-> 0,
       props |-> <<<<"minimum", JNum(0)>>>>]>>

RawMap(fields) == [k |-> "map", v |-> fields]

RawSeq(elements) == [k |-> "seq", v |-> elements]

FieldNames == {"d", "m", "top_level_array_element"}

\* field values that hold no mapping: a node, an array of a node, and the
\* malformed lists of no and of two elements
Terminals ==
    {NodeRef(1), RawSeq(<<NodeRef(2)>>), RawSeq(<<>>),
     RawSeq(<<NodeRef(1), NodeRef(2)>>)}

\* a mapping's values of inner size n, given the mappings of exactly n fields
\* in all: nothing but a mapping has fields of its own
FieldValues(n, maps) ==
    (IF n = 0 THEN Terminals ELSE {})
    \cup {RawMap(c) : c \in maps} \cup {RawSeq(<<RawMap(c)>>) : c \in maps}

\* the mappings of exactly Len(sized) fields in all, nested ones counted,
\* sized[a + 1] being those of exactly a fields: a mapping of a fields and one
\* more field, whose value holds the rest
LargerMaps(sized) ==
    LET n == Len(sized) IN
    UNION {{Append(m, <<name, val>>) :
                m \in {x \in sized[a + 1] : \A i \in 1..Len(x) : x[i][1] # name},
                val \in FieldValues(n - 1 - a, sized[n - a])}
           : a \in 0..(n - 1), name \in FieldNames}

RECURSIVE RawMaps(_, _)
\* the mappings of at most n fields in all, by size
RawMaps(n, sized) ==
    IF Len(sized) > n THEN UNION {sized[i] : i \in 1..Len(sized)}
    ELSE RawMaps(n, Append(sized, LargerMaps(sized)))

\* the raw schemas compiled: every mapping of at most MaxFields fields, as
\* the schema and as the element of a top-level list, and the lists that hold
\* no mapping
RawSchemas ==
    LET maps == RawMaps(MaxFields, <<{<<>>}>>) IN
    {RawMap(m) : m \in maps} \cup {RawSeq(<<RawMap(m)>>) : m \in maps}
    \cup Terminals \cup {RawSeq(<<RawSeq(<<>>)>>), RawSeq(<<RawSeq(<<NodeRef(1)>>)>>)}

InitSchema ==
    /\ heap = LeafHeap
    /\ log = [i \in 1..Len(LeafHeap) |-> [made |-> LeafHeap[i], kw |-> <<>>]]
    /\ ret = Outcome("init", 0, Ok(<<>>, None))
    /\ arg = None
    /\ calls = <<>>

\* the definitions table the last call built, None when there is none (no
\* call yet, a call that failed, a schema with no mapping)
LastTable == IF calls = <<>> THEN None ELSE calls[Len(calls)].defs

\* a bug of line 127: the table of the call before is taken up again
TopLevelDefsReused(earlier) == earlier

\* line 127: a top-level call passes no _schema_defs, and the parameter takes
\* its default, None, whatever table an earlier call built
TopLevelDefs(earlier) == None

\* compile_schema(raw_schema, require_all); the call is recorded with its
\* outcome (ok, err, val) and the table it built (defs)
CompileSchema(raw_schema, require_all) ==
    /\ calls' = Append(calls,
                   [raw_schema |-> raw_schema, require_all |-> require_all]
                   @@ compile_schema(heap, raw_schema, require_all,
                                     TopLevelDefs(LastTable)))
    /\ ret' = Outcome("compile_schema", 0, calls'[Len(calls')])
    /\ arg' = [k |-> "schema", v |-> raw_schema, require_all |-> require_all]
    /\ UNCHANGED <<heap, log>>

\* one call per session, over every raw schema
NextSchema ==
    /\ ret.op = "init"
    /\ \E raw_schema \in RawSchemas : \E require_all \in BOOLEAN :
          CompileSchema(raw_schema, require_all)

SpecSchema == InitSchema /\ [][NextSchema]_vars

---------------------------------------------------------------------------
(* Several compile_schema calls in one session *)

\* the number of top-level calls in a session
MaxCompiles == 2

\* the raw schemas compiled again and again: with and without array-of-object
\* fields, at the top and under an inline mapping, as a mapping and as a
\* top-level list, and the ones that fail (a name hoisted twice, a malformed
\* list)
RepeatSchemas ==
    {RawMap(<<<<"d", NodeRef(1)>>>>),
     RawMap(<<<<"d", RawSeq(<<RawMap(<<>>)>>)>>>>),
     RawMap(<<<<"d", RawSeq(<<RawMap(<<<<"m", NodeRef(2)>>>>)>>)>>>>),
     RawMap(<<<<"top_level_array_element", RawSeq(<<RawMap(<<>>)>>)>>>>),
     RawMap(<<<<"m", RawMap(<<<<"d", RawSeq(<<RawMap(<<>>)>>)>>>>)>>>>),
     RawMap(<<<<"d", RawSeq(<<RawMap(<<<<"d", RawSeq(<<RawMap(<<>>)>>)>>>>)>>)>>>>),
     RawMap(<<<<"d", RawSeq(<<>>)>>>>),
     RawSeq(<<NodeRef(1)>>),
     RawSeq(<<RawMap(<<>>)>>),
     RawSeq(<<RawMap(<<<<"d", RawSeq(<<RawMap(<<>>)>>)>>>>)>>)}

\* a session of up to MaxCompiles top-level calls
NextCalls ==
    /\ Len(calls) < MaxCompiles
    /\ \E raw_schema \in RepeatSchemas : \E require_all \in BOOLEAN :
          CompileSchema(raw_schema, require_all)

SpecCalls == InitSchema /\ [][NextCalls]_vars

---------------------------------------------------------------------------
(* Claims about the schema compiler *)

Compiled == ret.op = "compile_schema" /\ ret.ok

IsArrayOfObject(raw) == raw.k = "seq" /\ Len(raw.v) = 1 /\ raw.v[1].k = "map"

RECURSIVE ArrayObjectFields(_)
\* the array-of-object fields of a raw mapping's fields, at every depth, in
\* the order met: <<field name, element mapping>>
ArrayObjectFields(fields) ==
    IF fields = <<>> THEN <<>>
    ELSE LET name == Head(fields)[1]
             val == Head(fields)[2]
             here == IF IsArrayOfObject(val)
                     THEN <<<<name, val.v[1]>>>> \o ArrayObjectFields(val.v[1].v)
                     ELSE IF val.k = "map" THEN ArrayObjectFields(val.v)
                     ELSE <<>>
         IN  here \o ArrayObjectFields(Tail(fields))

\* the same for a whole raw schema; a top-level array of objects counts under
\* the name top_level_array_element
HoistedFields(raw) ==
    IF IsArrayOfObject(raw)
    THEN <<<<"top_level_array_element", raw.v[1]>>>> \o ArrayObjectFields(raw.v[1].v)
    ELSE IF raw.k = "map" THEN ArrayObjectFields(raw.v)
    ELSE <<>>

RECURSIVE Refs(_)
\* the values of every $ref in a compiled value
Refs(v) ==
    IF v.k # "dict" THEN {}
    ELSE UNION {IF v.v[i][1] = "$ref" THEN {v.v[i][2]} ELSE Refs(v.v[i][2])
                : i \in 1..Len(v.v)}

RootDefs == IF DictHas(ret.val.v, "$defs") THEN DictGet(ret.val.v, "$defs").v ELSE <<>>

\* the compiled schema of an element mapping, as a callee given a table
ElementSchema(mapping) ==
    compile_schema(heap, mapping, arg.require_all, JDict(<<>>)).val

\* C1: in a document compiled without error, every $ref is #/$defs/<name>
\* with <name> a key of the root $defs, and the entry there is the compiled
\* schema of the referencing array's element mapping.
RefsResolveAtRoot ==
    Compiled =>
        /\ \A r \in Refs(ret.val) :
              \E name \in KeySet(RootDefs) : r = JStr("#/$defs/" \o name)
        /\ \A i \in 1..Len(HoistedFields(arg.v)) :
              LET f == HoistedFields(arg.v)[i] IN
              /\ DictHas(RootDefs, f[1])
              /\ DictGet(RootDefs, f[1]) = ElementSchema(f[2])

\* C2: compile_schema raises ValueError and returns no document whenever two
\* distinct array-of-object fields anywhere in the raw schema share a name
\* (top_level_array_element being the name of a top-level array of objects).
DuplicateNamesFail ==
    (ret.op = "compile_schema" /\ HasDuplicates(DictKeys(HoistedFields(arg.v)))) =>
        ~ret.ok /\ ret.err = "ValueError"

RECURSIVE SchemaNodes(_)
\* a compiled schema and the schemas inside it: under properties, under
\* $defs and as items
SchemaNodes(d) ==
    {d} \cup UNION {
        IF d.v[i][1] \in {"properties", "$defs"}
        THEN UNION {SchemaNodes(d.v[i][2].v[j][2]) : j \in 1..Len(d.v[i][2].v)}
        ELSE IF d.v[i][1] = "items" THEN SchemaNodes(d.v[i][2])
        ELSE {}
        : i \in 1..Len(d.v)}

\* C3: with require_all, every object-typed schema of the returned document
\* (the root object, every inline nested object, every $defs entry) has
\* `required` equal to the list of its property names, and no other schema
\* has a `required` key.
AllObjectsRequired ==
    (Compiled /\ arg.require_all) =>
        \A n \in SchemaNodes(ret.val) :
            IF IsObjectSchema(n)
            THEN /\ DictHas(n.v, "required")
                 /\ DictGet(n.v, "required") =
                        JList(DictKeys(DictGet(n.v, "properties").v))
            ELSE ~DictHas(n.v, "required")

\* C4: in a returned document only the root carries a $defs key: no inline
\* object under properties and no entry of $defs has one.
DefsAtRootOnly ==
    Compiled => \A n \in SchemaNodes(ret.val) \ {ret.val} : ~DictHas(n.v, "$defs")

\* C5: for a top-level list of one mapping M the document is exactly
\* {type: array, items: {$ref: #/$defs/top_level_array_element}, $defs: D},
\* D holding the compiled object schema of M (with no $defs of its own) under
\* top_level_array_element, one entry per array-of-object field nested in M
\* under the field's name, and nothing else.
TopLevelArrayDocument ==
    (Compiled /\ IsArrayOfObject(arg.v)) =>
        /\ DictKeys(ret.val.v) = <<"type", "items", "$defs">>
        /\ DictGet(ret.val.v, "type") = JStr("array")
        /\ DictGet(ret.val.v, "items") =
              JDict(<<<<"$ref", JStr("#/$defs/top_level_array_element")>>>>)
        /\ KeySet(RootDefs) =
              {HoistedFields(arg.v)[i][1] : i \in 1..Len(HoistedFields(arg.v))}
        /\ DictGet(RootDefs, "top_level_array_element") = ElementSchema(arg.v.v[1])
        /\ ~DictHas(DictGet(RootDefs, "top_level_array_element").v, "$defs")

RECURSIVE BadSequenceIn(_)
\* a list of no or of several elements as the schema itself or as the value
\* of a field of a top-level, inline or element mapping
BadSequenceIn(raw) ==
    \/ raw.k = "seq" /\ Len(raw.v) # 1
    \/ IsArrayOfObject(raw) /\ BadSequenceIn(raw.v[1])
    \/ raw.k = "map" /\ \E i \in 1..Len(raw.v) : BadSequenceIn(raw.v[i][2])

---------------------------------------------------------------------------
(* Claim about successive compile_schema calls *)

\* the names defined in the $defs tables of a document, at every depth
DefinedNames(doc) ==
    UNION {{DictGet(n.v, "$defs").v[i][1] : i \in 1..Len(DictGet(n.v, "$defs").v)}
           : n \in {x \in SchemaNodes(doc) : DictHas(x.v, "$defs")}}

\* the names a raw schema's own array-of-object fields are hoisted under
OwnNames(raw) ==
    {HoistedFields(raw)[i][1] : i \in 1..Len(HoistedFields(raw))}

\* a raw schema that can fail by itself: a malformed list, or a name hoisted
\* twice
FailsAlone(raw) ==
    BadSequenceIn(raw) \/ HasDuplicates(DictKeys(HoistedFields(raw)))

====
